---- MODULE Spec2Model ----
(***************************************************************************)
(* A model of src/multi_url.py: get_sitemap_urls, main, MemoryTracker and  *)
(* the bounded concurrent batch orchestrator crawl_parallel.               *)
(*                                                                         *)
(* The page-fetch engine (crawl4ai AsyncWebCrawler), the file system and   *)
(* psutil are the environment: each call to them either returns or raises, *)
(* chosen nondeterministically.  A fetch (crawler.arun) returns a result   *)
(* {success, markdown} or raises an error of some kind (a subclass of      *)
(* Exception, as the engine contract EngineError{kind} states).            *)
(***************************************************************************)
EXTENDS Integers, Sequences, FiniteSets, TLC

\* ---------------------------------------------------------------- bounds
MaxUrls == 3
MaxConcurrent == 3

\* max_concurrent=5 in main's call of crawl_parallel
MainConcurrent == 5

\* the URL lists tried: n distinct URLs, and n copies of one URL (the sitemap's
\* <loc> values are not deduplicated)
Url(n) == <<"https://site/page", n>>
UrlLists == {[j \in 1..n |-> Url(j)] : n \in 0..MaxUrls}
                \cup {[j \in 1..n |-> Url(1)] : n \in 0..MaxUrls}

\* type(result).__name__ of what a fetch may raise
ErrorKinds == {"TimeoutError", "RuntimeError"}

\* 1024 * 1024, the divisor of log_memory
MiB == 1024 * 1024
\* resident set sizes psutil may report, in bytes
RssReadings == {MiB + (MiB \div 2), 2 * MiB}

\* ------------------------------------------------- values of the engine
\* what crawler.arun hands to gather: a CrawlResult, or a raised exception
CrawlResult(success, markdown) ==
    [exc |-> "none", success |-> success, markdown |-> markdown]
RaisedError(kind) ==
    [exc |-> kind, success |-> FALSE, markdown |-> ""]
FetchOutcomes ==
    {CrawlResult(TRUE, "text"), CrawlResult(TRUE, ""), CrawlResult(FALSE, "")}
        \cup {RaisedError(e) : e \in ErrorKinds}

\* outcomes of the sitemap request and parse
\* "ClientResponseError" is what raise_for_status() raises for a non-success
\* HTTP status; "Exception" stands for any other exception
SitemapOutcomes ==
    {"ok", "ClientError", "ClientResponseError", "ParseError", "Exception"}

VARIABLES
    pc,             \* position of the control thread (main / crawl_parallel)
    caller,         \* "main": run from main(); "direct": crawl_parallel called directly
    urls,           \* the URL list
    max_concurrent, \* crawl_parallel's max_concurrent
    crawler,        \* engine: "none", "created", "started", "closed"
    close_calls,    \* number of crawler.close() invocations
    i,              \* loop variable of range(0, len(urls), max_concurrent), 0-based
    batch_num,      \* enumerate(..., 1) counter; 0 before the first batch
    batch,          \* urls[i : i + max_concurrent]
    tasks,          \* the coroutines created for the batch: <<[url, session_id]>>
    inflight,       \* session ids of the fetches that are running
    results,        \* gather's result list so far: position j -> outcome
    k,              \* position of the zip(batch, results) loop, 0-based
    success_count,  \* stats["success_count"]
    fail_count,     \* stats["fail_count"]
    errors,         \* stats["errors"]: error kind -> count
    memory_stats,   \* stats["memory_stats"]
    peak_memory,    \* MemoryTracker.peak_memory
    pages,          \* the n of each page_{n}.md written, in order of writing
    summaries,      \* the summary.txt contents written, in order of writing
    exc,            \* the exception in flight / propagated, "none" if none
    exit_status,    \* -1 while running, 0 normal end of main, 1 sys.exit(1)
    log,            \* the log records written since the current batch began
    dispatched,     \* history: every fetch started: [pos, batch_num, session_id, url]
    fetched,        \* history: what the engine produced for position j of the batch
    nraised,        \* history: number of fetches so far that raised
    nfailed,        \* history: number of fetches so far that returned success=False
    before,         \* history: the counters as they were when the batch was dispatched
    sitemap,        \* history: outcome of the sitemap request, "pending" before it
    reordered,      \* history: an item of the batch finished before an earlier one
    snap_at         \* history: per snapshot, what had been dispatched / was running

vars == <<pc, caller, urls, max_concurrent, crawler, close_calls, i, batch_num,
          batch, tasks, inflight, results, k, success_count, fail_count, errors,
          memory_stats, peak_memory, pages, summaries, exc, exit_status, log,
          dispatched, fetched, nraised, nfailed, before, sitemap,
          reordered, snap_at>>

engineVars == <<crawler, close_calls>>
loopVars == <<i, batch_num, batch, tasks>>
gatherVars == <<inflight, results, k>>
statVars == <<success_count, fail_count, errors>>
memVars == <<memory_stats, peak_memory>>
fileVars == <<pages, summaries>>
histVars == <<dispatched, fetched, nraised, nfailed, before, sitemap,
             reordered, snap_at>>
callVars == <<caller, urls, max_concurrent>>

\* ------------------------------------------------------------- helpers
Min(a, b) == IF a < b THEN a ELSE b

\* Slice with the upper index taken inclusive
SliceInclusive(s, lo, hi) ==
    IF lo >= Min(hi + 1, Len(s)) THEN <<>> ELSE SubSeq(s, lo + 1, Min(hi + 1, Len(s)))

\* urls[lo : hi] of Python, for 0 <= lo: 0-based, hi exclusive, clipped
Slice(s, lo, hi) ==
    IF lo >= Min(hi, Len(s)) THEN <<>> ELSE SubSeq(s, lo + 1, Min(hi, Len(s)))

\* (len(urls) + max_concurrent - 1) // max_concurrent
TotalBatches(n, c) == (n + c - 1) \div c

\* f"session_{batch_num}_{j}"
SessionId(b, j) == <<"session", b, j>>

\* an empty dict / an empty result list
EmptyDict == [x \in {} |-> 0]

\* stats["errors"].get(error_type, 0) + 1
ErrorsGet(e, kind) == IF kind \in DOMAIN e THEN e[kind] ELSE 0
ErrorsIncr(e, kind) ==
    [x \in DOMAIN e \cup {kind} |-> IF x = kind THEN ErrorsGet(e, kind) + 1 ELSE e[x]]

\* isinstance(result, Exception)
IsException(result) == result.exc # "none"

\* NewPeak that forgets the running maximum
NewPeakIsCurrent(peak, current_mem) == current_mem

\* MemoryTracker.log_memory: the new peak and the stats dict returned
NewPeak(peak, current_mem) == IF current_mem > peak THEN current_mem ELSE peak
MemStats(prefix, peak, current_mem) ==
    [prefix |-> prefix,
     current_mb |-> current_mem \div MiB,
     peak_mb |-> NewPeak(peak, current_mem) \div MiB]

\* the summary report written to summary.txt
SummaryText(total, succ, fail, errs, final_stats) ==
    [total |-> total, successful |-> succ, failed |-> fail,
     error_types |-> errs, peak_mb |-> final_stats.peak_mb]

\* --------------------------------------------------------------- Init
Init ==
    /\ caller \in {"main", "direct"}
    /\ IF caller = "main"
          THEN /\ pc = "main"
               /\ urls = <<>>
               /\ max_concurrent = MainConcurrent
          ELSE /\ pc = "crawl_parallel"
               /\ urls \in UrlLists
               /\ max_concurrent \in 0..MaxConcurrent
    /\ crawler = "none"
    /\ close_calls = 0
    /\ i = 0
    /\ batch_num = 0
    /\ batch = <<>>
    /\ tasks = <<>>
    /\ inflight = {}
    /\ results = EmptyDict
    /\ k = 0
    /\ success_count = 0
    /\ fail_count = 0
    /\ errors = EmptyDict
    /\ memory_stats = <<>>
    /\ peak_memory = 0
    /\ pages = <<>>
    /\ summaries = <<>>
    /\ exc = "none"
    /\ exit_status = -1
    /\ log = <<>>
    /\ dispatched = <<>>
    /\ fetched = EmptyDict
    /\ nraised = 0
    /\ nfailed = 0
    /\ before = [success_count |-> 0, fail_count |-> 0, errors |-> EmptyDict]
    /\ sitemap = "pending"
    /\ reordered = FALSE
    /\ snap_at = <<>>

\* ------------------------------------------------------ get_sitemap_urls
\* The list get_sitemap_urls returns: the <loc> texts of the document when the
\* request and the parse succeed, [] after any caught failure.
get_sitemap_urls(outcome, doc) == IF outcome = "ok" THEN doc ELSE <<>>

\* ExceptClause without the final "except Exception"
ExceptClauseNoCatchAll(raised) ==
    IF raised \in {"ClientError", "ClientResponseError"} THEN "aiohttp.ClientError"
    ELSE IF raised = "ParseError" THEN "ElementTree.ParseError"
    ELSE "none"

\* the except clause of get_sitemap_urls that catches what the try body raised
\* ("none": no clause catches it)
ExceptClause(raised) ==
    IF raised \in {"ClientError", "ClientResponseError"} THEN "aiohttp.ClientError"
    ELSE IF raised = "ParseError" THEN "ElementTree.ParseError"
    ELSE "Exception"

\* what get_sitemap_urls propagates to its caller, "none" when it returns
SitemapRaises(outcome) ==
    IF outcome = "ok" \/ ExceptClause(outcome) # "none" THEN "none" ELSE outcome

\* main: urls = await get_sitemap_urls(...), inside main's try
GetSitemapUrls ==
    /\ pc = "main"
    /\ \E outcome \in SitemapOutcomes, doc \in UrlLists :
          /\ sitemap' = outcome
          /\ IF SitemapRaises(outcome) = "none"
                THEN /\ urls' = get_sitemap_urls(outcome, doc)
                     /\ pc' = "main_check"
                     /\ exc' = exc
                ELSE /\ exc' = SitemapRaises(outcome)
                     /\ pc' = "raised"
                     /\ urls' = urls
    /\ UNCHANGED <<caller, max_concurrent, engineVars, loopVars, gatherVars,
                   statVars, memVars, fileVars, exit_status, log,
                   dispatched, fetched, nraised, nfailed, before, reordered,
                   snap_at>>

\* MainCheck without the "if not urls" guard
MainCheckNoGuard ==
    /\ pc = "main_check"
    /\ pc' = "crawl_parallel"
    /\ UNCHANGED <<log, exit_status>>
    /\ UNCHANGED <<callVars, engineVars, loopVars, gatherVars, statVars, memVars,
                   fileVars, exc, histVars>>

\* main: if not urls: log and return; else call crawl_parallel(urls, 5)
MainCheck ==
    /\ pc = "main_check"
    /\ IF urls = <<>>
          THEN /\ log' = Append(log, [level |-> "error", msg |-> "No URLs found to crawl"])
               /\ pc' = "main_return"
               /\ exit_status' = 0
          ELSE /\ pc' = "crawl_parallel"
               /\ UNCHANGED <<log, exit_status>>
    /\ UNCHANGED <<callVars, engineVars, loopVars, gatherVars, statVars, memVars,
                   fileVars, exc, histVars>>

\* main: crawl_parallel returned: log the completion, fall off the end of main
MainCompleted ==
    /\ pc = "returned"
    /\ caller = "main"
    /\ log' = Append(log, [level |-> "info", msg |-> "Crawl completed"])
    /\ pc' = "main_return"
    /\ exit_status' = 0
    /\ UNCHANGED <<callVars, engineVars, loopVars, gatherVars, statVars, memVars,
                   fileVars, exc, histVars>>

\* main: except Exception: log the fatal error, sys.exit(1)
MainFatal ==
    /\ pc = "raised"
    /\ caller = "main"
    /\ log' = Append(log, [level |-> "error", msg |-> "Fatal error in main"])
    /\ pc' = "main_exit"
    /\ exit_status' = 1
    /\ UNCHANGED <<callVars, engineVars, loopVars, gatherVars, statVars, memVars,
                   fileVars, exc, histVars>>

\* ------------------------------------------------------- crawl_parallel
\* StartEngine with the failure of crawler.start() swallowed
StartEngineSwallowed ==
    /\ pc = "crawl_parallel"
    /\ \/ /\ crawler' = "started"
          /\ pc' = "loop"
          /\ exc' = exc
       \/ /\ crawler' = "created"
          /\ pc' = "loop"
          /\ exc' = exc
    /\ UNCHANGED <<callVars, close_calls, loopVars, gatherVars, statVars, memVars,
                   fileVars, exit_status, log, histVars>>

\* crawler = AsyncWebCrawler(...); await crawler.start()   (before the try)
StartEngine ==
    /\ pc = "crawl_parallel"
    /\ \/ /\ crawler' = "started"
          /\ pc' = "loop"
          /\ exc' = exc
       \/ /\ crawler' = "created"
          /\ exc' = "StartError"
          /\ pc' = "raised"
    /\ UNCHANGED <<callVars, close_calls, loopVars, gatherVars, statVars, memVars,
                   fileVars, exit_status, log, histVars>>

\* the coroutines the inner for loop creates for a batch (not yet running)
MakeTasks(b, bn) ==
    [j \in 1..Len(b) |-> [url |-> b[j], session_id |-> SessionId(bn, j - 1)]]

\* ForBatch with the for statement outside the try: the ValueError of range()
\* leaves crawl_parallel without passing the finally clause
ForBatchOutsideTry ==
    /\ pc = "loop"
    /\ IF max_concurrent = 0
          THEN /\ exc' = "ValueError"
               /\ pc' = "raised"
               /\ UNCHANGED <<loopVars, log>>
          ELSE IF i < Len(urls)
          THEN /\ batch' = Slice(urls, i, i + max_concurrent)
               /\ batch_num' = batch_num + 1
               /\ tasks' = MakeTasks(batch', batch_num')
               /\ pc' = "log_memory"
               /\ log' = <<>>
               /\ UNCHANGED <<i, exc>>
          ELSE /\ pc' = "finally"
               /\ UNCHANGED <<loopVars, exc, log>>
    /\ UNCHANGED <<callVars, engineVars, gatherVars, statVars, memVars, fileVars,
                   exit_status, histVars>>

\* for batch_num, i in enumerate(range(0, len(urls), max_concurrent), 1): the
\* next iteration (slice the batch, create its coroutines), or the end of the
\* loop; range() raises ValueError for a step of 0.
ForBatch ==
    /\ pc = "loop"
    /\ IF max_concurrent = 0
          THEN /\ exc' = "ValueError"
               /\ pc' = "finally"
               /\ UNCHANGED <<loopVars, log>>
          ELSE IF i < Len(urls)
          THEN /\ batch' = Slice(urls, i, i + max_concurrent)
               /\ batch_num' = batch_num + 1
               /\ tasks' = MakeTasks(batch', batch_num')
               /\ pc' = "log_memory"
               /\ log' = <<>>
               /\ UNCHANGED <<i, exc>>
          ELSE /\ pc' = "finally"
               /\ UNCHANGED <<loopVars, exc, log>>
    /\ UNCHANGED <<callVars, engineVars, gatherVars, statVars, memVars, fileVars,
                   exit_status, histVars>>

\* where the run stands when a snapshot is taken
SnapAt == [dispatched |-> Len(dispatched), inflight |-> Cardinality(inflight),
           closed |-> crawler = "closed"]

\* LogMemoryBatch without stats["memory_stats"].append(mem_stats)
LogMemoryBatchNoAppend ==
    /\ pc = "log_memory"
    /\ \/ \E rss \in RssReadings :
            /\ peak_memory' = NewPeak(peak_memory, rss)
            /\ UNCHANGED <<memory_stats, snap_at>>
            /\ pc' = "gather"
            /\ exc' = exc
       \/ /\ exc' = "PsutilError"
          /\ pc' = "finally"
          /\ UNCHANGED <<memVars, snap_at>>
    /\ UNCHANGED <<callVars, engineVars, loopVars, gatherVars, statVars, fileVars,
                   exit_status, log, dispatched, fetched, nraised,
                   nfailed, before, sitemap, reordered>>

\* mem_stats = memory_tracker.log_memory(f"Batch {n}/{total}"); append it.
\* psutil may raise instead: nothing catches it before the finally clause.
LogMemoryBatch ==
    /\ pc = "log_memory"
    /\ \/ \E rss \in RssReadings :
            /\ peak_memory' = NewPeak(peak_memory, rss)
            /\ memory_stats' = Append(memory_stats,
                   MemStats(<<"Batch", batch_num,
                              TotalBatches(Len(urls), max_concurrent)>>,
                            peak_memory, rss))
            /\ snap_at' = Append(snap_at, SnapAt)
            /\ pc' = "gather"
            /\ exc' = exc
       \/ /\ exc' = "PsutilError"
          /\ pc' = "finally"
          /\ UNCHANGED <<memVars, snap_at>>
    /\ UNCHANGED <<callVars, engineVars, loopVars, gatherVars, statVars, fileVars,
                   exit_status, log, dispatched, fetched, nraised,
                   nfailed, before, sitemap, reordered>>

\* asyncio.gather(*tasks, return_exceptions=True): every coroutine of the batch
\* is wrapped in a task and starts running
GatherDispatch ==
    /\ pc = "gather"
    /\ inflight' = inflight \cup {tasks[j].session_id : j \in 1..Len(tasks)}
    /\ results' = EmptyDict
    /\ k' = 0
    /\ dispatched' = dispatched \o
           [j \in 1..Len(tasks) |->
               [pos |-> i + j, batch_num |-> batch_num,
                session_id |-> tasks[j].session_id, url |-> tasks[j].url]]
    /\ fetched' = EmptyDict
    /\ pc' = "await_gather"
    /\ UNCHANGED <<callVars, engineVars, loopVars, statVars, memVars, fileVars,
                   exc, exit_status, log, nraised, nfailed, sitemap, snap_at>>
    /\ reordered' = FALSE
    /\ before' = [success_count |-> success_count, fail_count |-> fail_count,
                  errors |-> errors]

\* item j finishes while an item at an earlier position is still running
FinishesOutOfOrder(j) ==
    reordered \/ \E j2 \in 0..(j - 1) : SessionId(batch_num, j2) \in inflight

\* ArunDone with gather's results kept in order of completion
ArunDoneArrivalOrder(j, outcome) ==
    /\ pc = "await_gather"
    /\ SessionId(batch_num, j) \in inflight
    /\ inflight' = inflight \ {SessionId(batch_num, j)}
    /\ results' = (Cardinality(DOMAIN results) :> outcome) @@ results
    /\ fetched' = (j :> outcome) @@ fetched
    /\ nraised' = nraised + (IF outcome.exc # "none" THEN 1 ELSE 0)
    /\ nfailed' = nfailed + (IF outcome.exc = "none" /\ ~outcome.success THEN 1 ELSE 0)
    /\ UNCHANGED <<pc, callVars, engineVars, loopVars, k, statVars, memVars,
                   fileVars, exc, exit_status, log, dispatched, before, sitemap,
                   snap_at>>
    /\ reordered' = FinishesOutOfOrder(j)

\* ArunDone with the counters updated by the item itself as it finishes
ArunDoneCounting(j, outcome) ==
    /\ pc = "await_gather"
    /\ SessionId(batch_num, j) \in inflight
    /\ inflight' = inflight \ {SessionId(batch_num, j)}
    /\ results' = (j :> outcome) @@ results
    /\ fetched' = (j :> outcome) @@ fetched
    /\ nraised' = nraised + (IF outcome.exc # "none" THEN 1 ELSE 0)
    /\ nfailed' = nfailed + (IF outcome.exc = "none" /\ ~outcome.success THEN 1 ELSE 0)
    /\ fail_count' = fail_count + (IF outcome.exc # "none" THEN 1 ELSE 0)
    /\ UNCHANGED <<pc, callVars, engineVars, loopVars, k, success_count, errors,
                   memVars, fileVars, exc, exit_status, log, dispatched, before,
                   sitemap, snap_at>>
    /\ reordered' = FinishesOutOfOrder(j)

\* ArunDone under gather without return_exceptions=True: the first exception
\* raised by an item propagates out of the await at once
ArunDoneFirstException(j, outcome) ==
    /\ pc = "await_gather"
    /\ SessionId(batch_num, j) \in inflight
    /\ inflight' = inflight \ {SessionId(batch_num, j)}
    /\ fetched' = (j :> outcome) @@ fetched
    /\ nraised' = nraised + (IF outcome.exc # "none" THEN 1 ELSE 0)
    /\ nfailed' = nfailed + (IF outcome.exc = "none" /\ ~outcome.success THEN 1 ELSE 0)
    /\ IF outcome.exc # "none"
          THEN /\ exc' = outcome.exc
               /\ pc' = "finally"
               /\ UNCHANGED results
          ELSE /\ results' = (j :> outcome) @@ results
               /\ UNCHANGED <<pc, exc>>
    /\ UNCHANGED <<callVars, engineVars, loopVars, k, statVars, memVars,
                   fileVars, exit_status, log, dispatched, before, sitemap,
                   snap_at>>
    /\ reordered' = FinishesOutOfOrder(j)

\* one fetch of the batch terminates (returns or raises); with
\* return_exceptions=True gather stores either at the item's own position
ArunDone(j, outcome) ==
    /\ pc = "await_gather"
    /\ SessionId(batch_num, j) \in inflight
    /\ inflight' = inflight \ {SessionId(batch_num, j)}
    /\ results' = (j :> outcome) @@ results
    /\ fetched' = (j :> outcome) @@ fetched
    /\ nraised' = nraised + (IF outcome.exc # "none" THEN 1 ELSE 0)
    /\ nfailed' = nfailed + (IF outcome.exc = "none" /\ ~outcome.success THEN 1 ELSE 0)
    /\ UNCHANGED <<pc, callVars, engineVars, loopVars, k, statVars, memVars,
                   fileVars, exc, exit_status, log, dispatched, before, sitemap,
                   snap_at>>
    /\ reordered' = FinishesOutOfOrder(j)

\* GatherReturn that returns as soon as one task of the batch is done
GatherReturnFirstCompleted ==
    /\ pc = "await_gather"
    /\ Cardinality(inflight) < Len(tasks)
    /\ pc' = "classify"
    /\ k' = 0
    /\ UNCHANGED <<callVars, engineVars, loopVars, inflight, results, statVars,
                   memVars, fileVars, exc, exit_status, log, histVars>>

\* gather returns once every task of the batch is done
GatherReturn ==
    /\ pc = "await_gather"
    /\ inflight = {}
    /\ pc' = "classify"
    /\ k' = 0
    /\ UNCHANGED <<callVars, engineVars, loopVars, inflight, results, statVars,
                   memVars, fileVars, exc, exit_status, log, histVars>>

\* the branch of the if / elif / else taken for one result
Branch(result) ==
    IF IsException(result) THEN "exception"
    ELSE IF result.success THEN "success"
    ELSE "no_content"

\* stats["success_count"] after the branch taken for result
CountSuccess(count, result) ==
    IF Branch(result) = "success" THEN count + 1 ELSE count

\* CountFail without the increment of the else branch
CountFailExceptionsOnly(count, result) ==
    IF Branch(result) = "exception" THEN count + 1 ELSE count

\* stats["fail_count"] after the branch taken for result
CountFail(count, result) ==
    IF Branch(result) \in {"exception", "no_content"} THEN count + 1 ELSE count

\* CountError with the else branch recording a kind of its own
CountErrorAlsoNoContent(errs, result) ==
    IF Branch(result) = "exception" THEN ErrorsIncr(errs, result.exc)
    ELSE IF Branch(result) = "no_content" THEN ErrorsIncr(errs, "NoContent")
    ELSE errs

\* stats["errors"] after the branch taken for result
CountError(errs, result) ==
    IF Branch(result) = "exception" THEN ErrorsIncr(errs, result.exc) ELSE errs

\* the logger.error / logger.warning record of the branch taken, if any
ItemLog(url, result) ==
    CASE Branch(result) = "exception" ->
            <<[level |-> "error", msg |-> "Error crawling", url |-> url,
               detail |-> result.exc]>>
      [] Branch(result) = "no_content" ->
            <<[level |-> "warning", msg |-> "Failed to crawl", url |-> url,
               detail |-> "No content retrieved"]>>
      [] OTHER -> <<>>

\* whether the branch taken writes page_{success_count}.md
WritesPage(result) == Branch(result) = "success" /\ result.markdown # ""

\* zip(batch, results) has a pair at position k
ZipHasNext == k < Len(batch) /\ k \in DOMAIN results

\* one iteration of: for url, result in zip(batch, results).  write_text may
\* raise OSError, after success_count has been incremented.
ClassifyItem ==
    /\ pc = "classify"
    /\ ZipHasNext
    /\ LET url == batch[k + 1]
           result == results[k]
       IN  /\ success_count' = CountSuccess(success_count, result)
           /\ fail_count' = CountFail(fail_count, result)
           /\ errors' = CountError(errors, result)
           /\ log' = log \o ItemLog(url, result)
           /\ IF WritesPage(result)
                 THEN \/ /\ pages' = Append(pages, success_count')
                         /\ k' = k + 1
                         /\ UNCHANGED <<pc, exc>>
                      \/ /\ exc' = "OSError"
                         /\ pc' = "finally"
                         /\ UNCHANGED <<pages, k>>
                 ELSE /\ k' = k + 1
                      /\ UNCHANGED <<pages, pc, exc>>
    /\ UNCHANGED <<callVars, engineVars, loopVars, inflight, results, memVars,
                   summaries, exit_status, histVars>>

\* after the zip loop: log the progress, go to the next value of range()
LogProgress ==
    /\ pc = "classify"
    /\ ~ZipHasNext
    /\ log' = Append(log, [level |-> "info", msg |-> "Progress",
                           total |-> success_count + fail_count, of |-> Len(urls),
                           successful |-> success_count, failed |-> fail_count])
    /\ i' = i + max_concurrent
    /\ pc' = "loop"
    /\ UNCHANGED <<callVars, engineVars, batch_num, batch, tasks, gatherVars,
                   statVars, memVars, fileVars, exc, exit_status, histVars>>

\* finally: await crawler.close(); an exception it raises replaces the one in flight
CloseEngine ==
    /\ pc = "finally"
    /\ close_calls' = close_calls + 1
    /\ \/ /\ crawler' = "closed"
          /\ pc' = "final_stats"
          /\ exc' = exc
       \/ /\ crawler' = crawler
          /\ exc' = "CloseError"
          /\ pc' = "raised"
    /\ UNCHANGED <<callVars, loopVars, gatherVars, statVars, memVars, fileVars,
                   exit_status, log, histVars>>

\* finally: final_stats = memory_tracker.log_memory("Final stats"), append it,
\* build the summary and write summary.txt; then return stats, or re-raise the
\* exception that was in flight when the finally clause was entered
FinalStats ==
    /\ pc = "final_stats"
    /\ \/ \E rss \in RssReadings :
            LET final_stats == MemStats(<<"Final stats">>, peak_memory, rss) IN
            /\ peak_memory' = NewPeak(peak_memory, rss)
            /\ memory_stats' = Append(memory_stats, final_stats)
            /\ snap_at' = Append(snap_at, SnapAt)
            /\ \/ /\ summaries' = Append(summaries,
                         SummaryText(Len(urls), success_count, fail_count,
                                     errors, final_stats))
                  /\ exc' = exc
               \/ /\ exc' = "OSError"
                  /\ UNCHANGED summaries
            /\ pc' = IF exc' = "none" THEN "returned" ELSE "raised"
       \/ /\ exc' = "PsutilError"
          /\ pc' = "raised"
          /\ UNCHANGED <<memVars, summaries, snap_at>>
    /\ UNCHANGED <<callVars, engineVars, loopVars, gatherVars, statVars, pages,
                   exit_status, log, dispatched, fetched, nraised,
                   nfailed, before, sitemap, reordered>>

Next ==
    \/ GetSitemapUrls
    \/ MainCheck
    \/ MainCompleted
    \/ MainFatal
    \/ StartEngine
    \/ ForBatch
    \/ LogMemoryBatch
    \/ GatherDispatch
    \/ \E j \in 0..(Len(batch) - 1), outcome \in FetchOutcomes : ArunDone(j, outcome)
    \/ GatherReturn
    \/ ClassifyItem
    \/ LogProgress
    \/ CloseEngine
    \/ FinalStats

Spec == Init /\ [][Next]_vars

\* The event loop runs whatever is ready: the control thread's next statement,
\* and every engine call (start, fetch, close), which returns or raises in the
\* end.
FairSpec == Spec /\ WF_vars(Next)


\* ===================================================================
\* Properties
\* ===================================================================
\* crawl_parallel has left its body: returned stats, or propagated an exception
Exited == pc \in {"returned", "raised", "main_exit"}
           \/ (pc = "main_return" /\ crawler # "none")

\* number of positions j of the current batch whose fetch satisfies P
RaisedIn(kind) == Cardinality({j \in DOMAIN fetched : fetched[j].exc = kind})
NumRaised == Cardinality({j \in DOMAIN fetched : fetched[j].exc # "none"})
NumSucceeded ==
    Cardinality({j \in DOMAIN fetched : fetched[j].exc = "none" /\ fetched[j].success})
NumUnsuccessful ==
    Cardinality({j \in DOMAIN fetched : fetched[j].exc = "none" /\ ~fetched[j].success})
BatchClassified == pc = "classify" /\ k = Len(batch)

\* C1: whenever a batch has been classified, and when the run returns,
\* success_count + fail_count is the number of URLs dispatched so far (all of
\* them when the run returns); inside the classification loop the sum counts
\* exactly the items already classified, so each item adds one, once.
C1_CountsEqualDispatched ==
    /\ (pc \in {"loop", "returned"} \/ BatchClassified)
          => success_count + fail_count = Len(dispatched)
    /\ pc = "classify" /\ exc = "none"
          => success_count + fail_count = Len(dispatched) - Len(batch) + k
    /\ pc = "returned" => success_count + fail_count = Len(urls)

C1_Witness ==
    /\ pc = "returned"
    /\ Len(urls) = 3
    /\ batch_num >= 2
    /\ success_count >= 1
    /\ fail_count >= 1

\* C2: an item that raises never aborts the batch or drops a sibling: the
\* exception never becomes the run's exception in flight, gather hands back one
\* outcome per item of the batch, each the item's own, and once the batch is
\* classified it has yielded one Failure (one fail_count increment, one
\* increment of that error kind, one error record) per raising item and a
\* non-Failure outcome for every other item -- one Failure and N-1 others when
\* exactly one item raised.
C2_FailureDoesNotSuppressSiblings ==
    /\ exc \notin ErrorKinds
    /\ pc = "classify" =>
          /\ DOMAIN results = 0..(Len(batch) - 1)
          /\ \A j \in DOMAIN results : results[j] = fetched[j]
    /\ BatchClassified =>
          /\ \A e \in ErrorKinds :
                ErrorsGet(errors, e) = ErrorsGet(before.errors, e) + RaisedIn(e)
          /\ Len(SelectSeq(log, LAMBDA r : r.level = "error")) = NumRaised
          /\ fail_count = before.fail_count + NumRaised + NumUnsuccessful
          /\ success_count = before.success_count + NumSucceeded
          /\ NumSucceeded + NumUnsuccessful = Len(batch) - NumRaised

C2_Witness ==
    /\ BatchClassified
    /\ Len(batch) = 3
    /\ NumRaised = 1
    /\ fetched[1].exc # "none"
    /\ fail_count = before.fail_count + 1
    /\ success_count = before.success_count + 2

\* C3: batches never overlap: every fetch in flight belongs to the current
\* batch, at most max_concurrent are in flight, and none is in flight while the
\* loop classifies the batch's outcomes or forms, samples for and dispatches the
\* next batch.
C3_BatchesNeverOverlap ==
    /\ Cardinality(inflight) <= max_concurrent
    /\ \A s \in inflight : s[2] = batch_num
    /\ pc \in {"classify", "loop", "log_memory", "gather"} => inflight = {}

C3_Witness ==
    /\ pc = "await_gather"
    /\ max_concurrent = 2
    /\ batch_num = 2
    /\ Cardinality(inflight) = 1
    /\ Len(dispatched) = 3

\* C4: when the engine start succeeded, crawler.close is invoked exactly once
\* on every exit path, with no fetch in flight and none dispatched afterwards;
\* when the start failed, close is never invoked.
C4_CloseExactlyOnce ==
    /\ close_calls <= 1
    /\ crawler = "created" => close_calls = 0
    /\ (Exited /\ crawler \in {"started", "closed"}) => close_calls = 1
    /\ close_calls = 1 =>
          /\ inflight = {}
          /\ pc \in {"final_stats", "returned", "raised", "main_return", "main_exit"}

C4_Witness ==
    /\ pc = "raised"
    /\ exc = "ValueError"
    /\ crawler = "closed"
    /\ close_calls = 1

\* C5: an item whose fetch returns success=true with empty content increments
\* fail_count, not success_count, and adds nothing to the error histogram.
C5_EmptyContentCountsAsFailure ==
    [][(/\ pc = "classify"
        /\ k < Len(batch)
        /\ k \in DOMAIN results
        /\ results[k].exc = "none"
        /\ results[k].success
        /\ results[k].markdown = "")
         => (/\ fail_count' = fail_count + 1
             /\ success_count' = success_count
             /\ errors' = errors)]_vars

\* C6: the batches are the consecutive slices of at most max_concurrent URLs:
\* every URL dispatched is dispatched at its own list position, in order, in
\* batch ceil(position / max_concurrent); each batch formed is the slice starting
\* at (batch_num - 1) * max_concurrent, full unless it ends the list; and when
\* the loop ends, every position has been dispatched in ceil(L / C) batches.
C6_BatchesPartitionTheList ==
    /\ \A n \in 1..Len(dispatched) :
          /\ n <= Len(urls)
          /\ dispatched[n].pos = n
          /\ dispatched[n].url = urls[n]
          /\ (dispatched[n].batch_num - 1) * max_concurrent < n
          /\ n <= dispatched[n].batch_num * max_concurrent
    /\ pc \in {"log_memory", "gather", "await_gather", "classify"} =>
          /\ i = (batch_num - 1) * max_concurrent
          /\ Len(batch) >= 1
          /\ Len(batch) <= max_concurrent
          /\ Len(batch) < max_concurrent => i + Len(batch) = Len(urls)
          /\ i + Len(batch) <= Len(urls)
          /\ \A j \in 1..Len(batch) : batch[j] = urls[i + j]
    /\ (pc = "finally" /\ exc = "none") =>
          /\ Len(dispatched) = Len(urls)
          /\ (batch_num - 1) * max_concurrent < Len(urls) \/ batch_num = 0
          /\ Len(urls) <= batch_num * max_concurrent

C6_Witness ==
    /\ pc = "finally"
    /\ exc = "none"
    /\ Len(urls) = 3
    /\ max_concurrent = 2
    /\ batch_num = 2
    /\ Len(batch) = 1

\* C7: when the finally clause is entered with an exception in flight and
\* crawler.close fails, the exception that propagates is still the original.
C7_CloseFailureDoesNotMask ==
    [][(pc = "finally" /\ exc # "none") => exc' = exc]_vars

\* C8: when the run returns, the pages written are page_1 .. page_k with
\* k = success_count, each once, and summary.txt has been written once.
C8_OnePagePerSuccess ==
    pc = "returned" =>
        /\ pages = [n \in 1..success_count |-> n]
        /\ Len(summaries) = 1

\* C9: on every exit path of crawl_parallel the last element of memory_stats
\* is the final snapshot.
C9_FinalSnapshotOnEveryExit ==
    pc \in {"returned", "raised"} =>
        /\ memory_stats # <<>>
        /\ memory_stats[Len(memory_stats)].prefix = <<"Final stats">>

\* C10: when the sitemap read yields no URLs, main logs "No URLs found to
\* crawl" and returns: the engine is never created or started, nothing is
\* dispatched, and the process does not exit with status 1.
C10_EmptySitemapSkipsCrawl ==
    (caller = "main" /\ pc \notin {"main", "main_check"} /\ urls = <<>>) =>
        /\ pc = "main_return"
        /\ log = <<[level |-> "error", msg |-> "No URLs found to crawl"]>>
        /\ crawler = "none"
        /\ close_calls = 0
        /\ dispatched = <<>>
        /\ exit_status = 0
        /\ exc = "none"

C10_Witness ==
    /\ caller = "main"
    /\ pc = "main_return"
    /\ urls = <<>>
    /\ exit_status = 0


\* C11: after a failed engine start the failure is the exception leaving
\* crawl_parallel, no fetch has been or is dispatched, close is not called, and
\* main ends the process with exit status 1 after logging the fatal error.
C11_StartFailureIsFatal ==
    crawler = "created" =>
        /\ exc = "StartError"
        /\ dispatched = <<>>
        /\ inflight = {}
        /\ pc \in {"raised", "main_exit"}
        /\ pc = "raised" => exit_status = -1
        /\ pc = "main_exit" =>
              /\ caller = "main"
              /\ exit_status = 1
              /\ log # <<>>
              /\ log[Len(log)] = [level |-> "error", msg |-> "Fatal error in main"]

C11_Witness ==
    /\ caller = "main"
    /\ crawler = "created"
    /\ pc = "main_exit"
    /\ exit_status = 1
    /\ Len(urls) >= 1

\* C12: whatever the request or the parse raises (a client error, a non-success
\* HTTP status, an XML parse error, any other exception), get_sitemap_urls
\* propagates nothing and hands main the empty list.
C12_SitemapFailureYieldsEmptyList ==
    (caller = "main" /\ sitemap \notin {"pending", "ok"}) =>
        /\ urls = <<>>
        /\ exc = "none"
        /\ pc \in {"main_check", "main_return"}
        /\ exit_status # 1

C12_Witness ==
    /\ caller = "main"
    /\ sitemap = "ClientResponseError"
    /\ pc = "main_check"
    /\ urls = <<>>


\* the URL for which the fetch at position j (0-based) of the current batch
\* was dispatched
DispatchedUrl(j) == dispatched[Len(dispatched) - Len(batch) + j + 1].url

\* the error / warning records that the outcomes of the fetches dispatched for
\* the first n positions of the batch call for, each naming its own URL
RECURSIVE ExpectedItemLog(_)
ExpectedItemLog(n) ==
    IF n = 0 THEN <<>>
    ELSE LET o == fetched[n - 1]
             u == DispatchedUrl(n - 1)
         IN  ExpectedItemLog(n - 1) \o
               (IF o.exc # "none"
                   THEN <<[level |-> "error", msg |-> "Error crawling",
                           url |-> u, detail |-> o.exc]>>
                ELSE IF ~o.success
                   THEN <<[level |-> "warning", msg |-> "Failed to crawl",
                           url |-> u, detail |-> "No content retrieved"]>>
                ELSE <<>>)

\* C13: whatever the order of completion, the outcome the loop pairs with the
\* URL at position j of the batch is the outcome of the fetch dispatched for
\* that URL, and the records logged for the items classified so far are those
\* outcomes under their own URLs, in position order.
C13_OutcomesPairedByPosition ==
    pc = "classify" =>
        /\ \A j \in 0..(Len(batch) - 1) :
              /\ j \in DOMAIN results
              /\ j \in DOMAIN fetched
              /\ results[j] = fetched[j]
              /\ batch[j + 1] = DispatchedUrl(j)
        /\ log = ExpectedItemLog(k)

C13_Witness ==
    /\ BatchClassified
    /\ reordered
    /\ Len(batch) >= 2
    /\ batch[1] # batch[2]
    /\ fetched[0].exc = "TimeoutError"
    /\ fetched[1] = CrawlResult(FALSE, "")
    /\ Len(log) = 2
    /\ log[1].url = batch[1] /\ log[1].detail = "TimeoutError"
    /\ log[2].url = batch[2] /\ log[2].level = "warning"


\* C14: along memory_stats the reported peak never decreases, every snapshot's
\* peak is at least its own current value, and it is the largest current value
\* reported so far.
C14_PeakIsRunningMaximum ==
    /\ \A n \in 1..Len(memory_stats) :
          /\ memory_stats[n].peak_mb >= memory_stats[n].current_mb
          /\ \A m \in 1..n : memory_stats[m].current_mb <= memory_stats[n].peak_mb
          /\ \E m \in 1..n : memory_stats[m].current_mb = memory_stats[n].peak_mb
    /\ \A n \in 1..(Len(memory_stats) - 1) :
          memory_stats[n].peak_mb <= memory_stats[n + 1].peak_mb

C14_Witness ==
    /\ Len(memory_stats) >= 3
    /\ memory_stats[1].current_mb = 1
    /\ memory_stats[2].current_mb = 2
    /\ memory_stats[3].current_mb = 1
    /\ memory_stats[1].peak_mb = 1
    /\ memory_stats[3].peak_mb = 2

\* C15: a failure of the resource-sampling primitive never becomes an
\* exception of the run: the snapshot degrades and the run goes on.
C15_SamplingFailureIsNotFatal ==
    exc # "PsutilError"


\* C16: in a run whose engine start succeeded and whose max_concurrent > 0,
\* once the batch loop is left every position of the URL list has been passed
\* to the fetch engine, each exactly once and in order.
C16_EveryPositionDispatchedOnce ==
    (/\ Exited \/ pc \in {"finally", "final_stats"}
     /\ crawler \in {"started", "closed"}
     /\ max_concurrent > 0) =>
        /\ Len(dispatched) = Len(urls)
        /\ \A n \in 1..Len(dispatched) : dispatched[n].pos = n

\* C17: no step taken while a fetch is in flight changes success_count,
\* fail_count or the error histogram; a step that changes them is a step of
\* the batch loop's classification, taken with nothing in flight and every
\* result of the batch in hand.
C17_StatsChangeOnlyAfterBatch ==
    [][/\ inflight # {} => statVars' = statVars
       /\ statVars' # statVars =>
             /\ pc = "classify"
             /\ inflight = {}
             /\ DOMAIN results = 0..(Len(batch) - 1)]_vars

C17_Witness ==
    /\ pc = "await_gather"
    /\ Len(batch) = 3
    /\ Cardinality(inflight) = 1
    /\ NumRaised = 1
    /\ NumSucceeded = 1
    /\ success_count = before.success_count
    /\ fail_count = before.fail_count
    /\ errors = before.errors

\* C18: every batch snapshot n is taken with the first (n - 1) * max_concurrent
\* positions dispatched and terminated and nothing of batch n running; when the
\* run returns, memory_stats holds ceil(L / C) batch snapshots labelled
\* "Batch n/total" in order, followed by the final one, taken with the engine
\* closed.
C18_OneSnapshotPerBatchPlusFinal ==
    /\ Len(snap_at) = Len(memory_stats)
    /\ \A n \in 1..Len(memory_stats) :
          memory_stats[n].prefix # <<"Final stats">> =>
              /\ n <= batch_num
              /\ memory_stats[n].prefix[2] = n
              /\ snap_at[n].inflight = 0
              /\ snap_at[n].dispatched = (n - 1) * max_concurrent
              /\ ~snap_at[n].closed
    /\ pc = "returned" =>
          /\ Len(memory_stats) = batch_num + 1
          /\ (batch_num - 1) * max_concurrent < Len(urls) \/ batch_num = 0
          /\ Len(urls) <= batch_num * max_concurrent
          /\ \A n \in 1..batch_num :
                memory_stats[n].prefix = <<"Batch", n, batch_num>>
          /\ memory_stats[batch_num + 1].prefix = <<"Final stats">>
          /\ snap_at[batch_num + 1].closed
          /\ snap_at[batch_num + 1].inflight = 0
          /\ snap_at[batch_num + 1].dispatched = Len(urls)

C18_Witness ==
    /\ pc = "returned"
    /\ Len(urls) = 3
    /\ max_concurrent = 2
    /\ Len(memory_stats) = 3

\* the sum of the counts of the error-kind histogram
RECURSIVE SumOver(_, _)
SumOver(e, kinds) ==
    IF kinds = {} THEN 0
    ELSE LET x == CHOOSE y \in kinds : TRUE
         IN  e[x] + SumOver(e, kinds \ {x})
SumErrors == SumOver(errors, DOMAIN errors)

\* C20: after every batch the histogram's counts add up to the number of
\* fetches that raised, and fail_count exceeds that sum by the number of
\* fetches that returned without success; the sum never exceeds fail_count and
\* the histogram only holds kinds that a fetch raised.
C20_HistogramCountsRaisedItems ==
    /\ SumErrors <= fail_count
    /\ DOMAIN errors \subseteq ErrorKinds
    /\ (pc \in {"loop", "returned"} \/ BatchClassified) =>
          /\ SumErrors = nraised
          /\ fail_count - SumErrors = nfailed

C20_Witness ==
    /\ BatchClassified
    /\ batch_num = 2
    /\ nraised = 2
    /\ nfailed = 1
    /\ fail_count = 3
    /\ errors = [x \in {"TimeoutError"} |-> 2]


\* the state of the run's state machine that a program position stands for:
\* a batch is in flight while gather is awaited; before the first dispatch the
\* engine is starting or freshly started; between gathers a batch is complete
Phase ==
    CASE pc \in {"main", "main_check"} -> "NotStarted"
      [] pc = "main_return" /\ crawler = "none" -> "NotStarted"
      [] pc = "crawl_parallel" -> "EngineStarting"
      [] pc \in {"loop", "log_memory", "gather"} /\ dispatched = <<>> -> "EngineStarting"
      [] pc = "await_gather" -> "BatchInFlight"
      [] pc \in {"loop", "log_memory", "gather"} /\ dispatched # <<>> -> "BatchComplete"
      [] pc = "classify" -> "BatchComplete"
      [] pc \in {"finally", "final_stats"} -> "EngineClosing"
      [] crawler = "created" -> "Failed"
      [] OTHER -> "Done"

PhaseOrder ==
    {<<"NotStarted", "EngineStarting">>,
     <<"EngineStarting", "BatchInFlight">>,
     <<"EngineStarting", "EngineClosing">>,
     <<"EngineStarting", "Failed">>,
     <<"BatchInFlight", "BatchComplete">>,
     <<"BatchComplete", "BatchInFlight">>,
     <<"BatchComplete", "EngineClosing">>,
     <<"EngineClosing", "Done">>}

\* the process (run from main) or the call (direct) has ended
Terminated ==
    \/ pc \in {"main_return", "main_exit"}
    \/ caller = "direct" /\ pc \in {"returned", "raised"}

====
